---- MODULE Spec2Model ----
(***************************************************************************)
(* Model of @tanqory/core: TokenManager, MemoryCache, TanqoryError and the *)
(* request pipeline of TanqoryApiClient (request, executeWithRetry and the *)
(* axios request/response interceptors).                                   *)
(*                                                                         *)
(* Times are milliseconds, as Date.now() returns them.  A JavaScript value *)
(* that may be absent is modelled by a sentinel of the same type:          *)
(* Undefined for strings, UndefNum for numbers, <<>> for objects.          *)
(***************************************************************************)
EXTENDS Integers, Sequences, FiniteSets, TLC

VARIABLES
    config,      \* TanqoryApiClient.config / TokenManager.config (after the constructor's merge)
    now,         \* Date.now()
    tokenData,   \* TokenManager.tokenData: <<>> (null) or <<TokenData>>
    env,         \* process.env, the three TANQORY_* keys
    cache,       \* MemoryCache.cache: Map from generated key to CacheEntry
    reqs,        \* per logical request: its position in request()/executeWithRetry and its locals
    started,     \* number of logical requests started so far
    obs,         \* what the last public call on TokenManager / MemoryCache returned
    stored,      \* per generated key: what the last set() call on MemoryCache stored
                 \* and when, until invalidate() or clear() drops the key
    triples      \* the (url, method, params) triples MemoryCache's callers use

vars == <<config, now, tokenData, env, cache, reqs, started, obs, stored, triples>>

----------------------------------------------------------------------------
(* Bounds of the model *)

MaxTicks == 2
MaxRequests == 2
MaxAttempts == 4

(* Program constants *)

ExpiryBuffer == 300
DefaultRetries == 3
DefaultRetryDelay == 1000
RateLimitDelay == 60000
DefaultCacheTTL == 300000

----------------------------------------------------------------------------
(* JavaScript values *)

Undefined == "<undefined>"
UndefNum == 0 - 1
NaN == 0 - 2
NullData == "<null>"
NoHeader == <<>>

TruthyStr(s) == s # Undefined /\ s # "" /\ s # NullData
TruthyNum(n) == n # UndefNum /\ n # 0

OrStr(a, b) == IF TruthyStr(a) THEN a ELSE b
OrNum(a, b) == IF TruthyNum(a) THEN a ELSE b

RECURSIVE Pow2(_)
Pow2(n) == IF n = 0 THEN 1 ELSE 2 * Pow2(n - 1)

MapSet(m, k, v) == [x \in (DOMAIN m) \cup {k} |-> IF x = k THEN v ELSE m[x]]
MapDelete(m, k) == [x \in (DOMAIN m) \ {k} |-> m[x]]
EmptyMap == [x \in {} |-> x]

----------------------------------------------------------------------------
(* TokenManager *)

\* Number.prototype.toString and parseInt on non-negative integers: a decimal
\* string is the sequence of its digits, <<>> is an absent value.
RECURSIVE NumToString(_)
NumToString(n) == IF n < 10 THEN <<n>> ELSE Append(NumToString(n \div 10), n % 10)

RECURSIVE ParseInt(_)
ParseInt(s) ==
    IF Len(s) = 1 THEN s[1]
    ELSE 10 * ParseInt(SubSeq(s, 1, Len(s) - 1)) + s[Len(s)]

\* text that is not a number: a character other than a digit is written as a
\* code above 9.  parseInt reads the leading digits and gives NaN without any.
NonDigit == 10

RECURSIVE LeadingDigits(_)
LeadingDigits(s) ==
    IF s = <<>> \/ Head(s) \notin 0..9 THEN <<>>
    ELSE <<Head(s)>> \o LeadingDigits(Tail(s))

ParseIntText(s) ==
    IF LeadingDigits(s) = <<>> THEN NaN ELSE ParseInt(LeadingDigits(s))

\* a * b in floating point, for a NaN or a non-negative integer
Times(a, b) == IF a = NaN \/ b = NaN THEN NaN ELSE a * b

NoEnv == [TANQORY_ACCESS_TOKEN |-> Undefined,
          TANQORY_REFRESH_TOKEN |-> Undefined,
          TANQORY_TOKEN_EXPIRES_AT |-> <<>>]

IsTokenValid(td, t) ==
    IF td = <<>> THEN FALSE
    ELSE IF ~TruthyStr(td[1].accessToken) THEN FALSE
    ELSE IF TruthyNum(td[1].expiresAt)
         THEN td[1].expiresAt * 1000 > t + ExpiryBuffer * 1000
         ELSE TRUE

\* the credential's own token type ignored
GetAuthorizationHeaderBearer(td, t) ==
    IF ~IsTokenValid(td, t) THEN NoHeader
    ELSE <<"Bearer", td[1].accessToken>>

GetAuthorizationHeader(td, t) ==
    IF ~IsTokenValid(td, t) THEN NoHeader
    ELSE <<OrStr(td[1].tokenType, "Bearer"), td[1].accessToken>>

EnvAfterSetToken(cfg, e, token) ==
    IF cfg.tokenStorage = "env"
    THEN [TANQORY_ACCESS_TOKEN |-> token.accessToken,
          TANQORY_REFRESH_TOKEN |->
              IF TruthyStr(token.refreshToken) THEN token.refreshToken
              ELSE e.TANQORY_REFRESH_TOKEN,
          TANQORY_TOKEN_EXPIRES_AT |->
              IF TruthyNum(token.expiresAt) THEN NumToString(token.expiresAt)
              ELSE e.TANQORY_TOKEN_EXPIRES_AT]
    ELSE e

\* the environment left as it is
EnvAfterClearTokenKept(cfg, e) == e

EnvAfterClearToken(cfg, e) ==
    IF cfg.tokenStorage = "env" THEN NoEnv ELSE e

\* the environment read whatever the storage mode
LoadTokenFromStorageAnyMode(cfg, e) ==
    IF TruthyStr(e.TANQORY_ACCESS_TOKEN)
    THEN <<[accessToken |-> e.TANQORY_ACCESS_TOKEN,
            refreshToken |-> e.TANQORY_REFRESH_TOKEN,
            expiresAt |-> IF e.TANQORY_TOKEN_EXPIRES_AT # <<>>
                          THEN ParseInt(e.TANQORY_TOKEN_EXPIRES_AT)
                          ELSE UndefNum,
            tokenType |-> "Bearer"]>>
    ELSE <<>>

LoadTokenFromStorage(cfg, e) ==
    IF cfg.tokenStorage = "env" /\ TruthyStr(e.TANQORY_ACCESS_TOKEN)
    THEN <<[accessToken |-> e.TANQORY_ACCESS_TOKEN,
            refreshToken |-> e.TANQORY_REFRESH_TOKEN,
            expiresAt |-> IF e.TANQORY_TOKEN_EXPIRES_AT # <<>>
                          THEN ParseInt(e.TANQORY_TOKEN_EXPIRES_AT)
                          ELSE UndefNum,
            tokenType |-> "Bearer"]>>
    ELSE <<>>

----------------------------------------------------------------------------
(* MemoryCache *)

\* JSON.stringify of a params object: its entries in insertion order.  A params
\* object is a sequence of "key=value" tokens, NoParams is an absent object.
NoParams == <<"<undefined>">>

RECURSIVE JoinComma(_)
JoinComma(tokens) ==
    IF Len(tokens) <= 1 THEN tokens
    ELSE <<Head(tokens), ",">> \o JoinComma(Tail(tokens))

ParamString(params) ==
    IF params = NoParams THEN <<>> ELSE <<"{">> \o JoinComma(params) \o <<"}">>

\* the key with the params left out
GenerateKeyNoParams(url, method, params) == <<method, ":">> \o url \o <<":">>

\* `${method}:${url}:${paramString}`: a string is the sequence of its pieces, a
\* url is a sequence of pieces too, and the key is their concatenation
GenerateKey(url, method, params) ==
    <<method, ":">> \o url \o <<":">> \o ParamString(params)

\* set that keeps the ETag a key already has
CacheSetKeepEtag(c, defaultTTL, url, method, data, params, ttl, etag, t) ==
    MapSet(c, GenerateKey(url, method, params),
           [data |-> data, timestamp |-> t, ttl |-> OrNum(ttl, defaultTTL),
            etag |-> IF GenerateKey(url, method, params) \in DOMAIN c
                     THEN c[GenerateKey(url, method, params)].etag ELSE etag])

\* set that keeps the entry a key already has
CacheSetIfAbsent(c, defaultTTL, url, method, data, params, ttl, etag, t) ==
    IF GenerateKey(url, method, params) \in DOMAIN c THEN c
    ELSE MapSet(c, GenerateKey(url, method, params),
                [data |-> data, timestamp |-> t,
                 ttl |-> OrNum(ttl, defaultTTL), etag |-> etag])

\* the ttl taken for seconds
IsExpiredSeconds(entry, t) == t - entry.timestamp > entry.ttl * 1000

IsExpired(entry, t) == t - entry.timestamp > entry.ttl

CacheSet(c, defaultTTL, url, method, data, params, ttl, etag, t) ==
    MapSet(c, GenerateKey(url, method, params),
           [data |-> data, timestamp |-> t,
            ttl |-> OrNum(ttl, defaultTTL), etag |-> etag])

\* get: the value returned, and the map it leaves behind
CacheGet(c, url, method, params, t) ==
    LET key == GenerateKey(url, method, params) IN
    IF key \notin DOMAIN c THEN NullData
    ELSE IF IsExpired(c[key], t) THEN NullData
    ELSE c[key].data

CacheAfterGet(c, url, method, params, t) ==
    LET key == GenerateKey(url, method, params) IN
    IF key \in DOMAIN c /\ IsExpired(c[key], t) THEN MapDelete(c, key) ELSE c

CacheGetEtag(c, url, method, params, t) ==
    LET key == GenerateKey(url, method, params) IN
    IF key \notin DOMAIN c THEN Undefined
    ELSE IF IsExpired(c[key], t) THEN Undefined
    ELSE c[key].etag

CacheInvalidate(c, url, method, params) ==
    MapDelete(c, GenerateKey(url, method, params))

\* every entry swept, expired or not
CacheCleanupAll(c, t) == EmptyMap

CacheCleanup(c, t) ==
    [k \in {x \in DOMAIN c : ~IsExpired(c[x], t)} |-> c[k]]

----------------------------------------------------------------------------
(* TanqoryError *)

\* An axios failure: response is <<>> or <<[status, statusText, data, headers]>>,
\* request tells whether a request was sent.
NewTanqoryError(message, status, code, response) ==
    [name |-> "TanqoryError", message |-> message, status |-> status,
     code |-> code, response |-> response]

\* a sent request looked at before the response
FromAxiosErrorRequestFirst(e) ==
    IF e.request
    THEN NewTanqoryError("No response received from server", UndefNum,
                         "NETWORK_ERROR", <<>>)
    ELSE IF e.response # <<>>
    THEN NewTanqoryError(
             OrStr(e.response[1].data.message, OrStr(e.message, "Request failed")),
             e.response[1].status,
             OrStr(e.response[1].data.code, e.code),
             <<[data |-> e.response[1].data,
                status |-> e.response[1].status,
                statusText |-> e.response[1].statusText]>>)
    ELSE NewTanqoryError(OrStr(e.message, "Request setup failed"), UndefNum,
                         "REQUEST_SETUP_ERROR", <<>>)

FromAxiosError(e) ==
    IF e.response # <<>>
    THEN NewTanqoryError(
             OrStr(e.response[1].data.message, OrStr(e.message, "Request failed")),
             e.response[1].status,
             OrStr(e.response[1].data.code, e.code),
             <<[data |-> e.response[1].data,
                status |-> e.response[1].status,
                statusText |-> e.response[1].statusText]>>)
    ELSE IF e.request
    THEN NewTanqoryError("No response received from server", UndefNum,
                         "NETWORK_ERROR", <<>>)
    ELSE NewTanqoryError(OrStr(e.message, "Request setup failed"), UndefNum,
                         "REQUEST_SETUP_ERROR", <<>>)

\* server errors retried, rate limiting not
IsRetryableNo429(err) ==
    IF ~TruthyNum(err.status) THEN FALSE
    ELSE err.status >= 500

\* every error status retried
IsRetryableAnyError(err) ==
    IF ~TruthyNum(err.status) THEN FALSE
    ELSE err.status >= 400

IsRetryable(err) ==
    IF ~TruthyNum(err.status) THEN FALSE
    ELSE err.status >= 500 \/ err.status = 429

IsAuthError(err) == err.status = 401
IsForbidden(err) == err.status = 403
IsNotFound(err) == err.status = 404
IsRateLimited(err) == err.status = 429

----------------------------------------------------------------------------
(* Client configuration: the constructor's defaults overridden by the caller's
   options (timeout and logLevel do not reach the modelled state).  The
   constructor gives autoRefreshToken no default: FALSE stands for the option
   left out. *)

DefaultConfig ==
    [retries |-> DefaultRetries, retryDelay |-> DefaultRetryDelay,
     tokenStorage |-> "memory", enableCaching |-> FALSE,
     cacheTTL |-> DefaultCacheTTL, enableTokenRefresh |-> FALSE,
     autoRefreshToken |-> FALSE, apiKey |-> Undefined]

MergeConfig(user) ==
    [k \in DOMAIN DefaultConfig |->
        IF k \in DOMAIN user THEN user[k] ELSE DefaultConfig[k]]

\* new MemoryCache(this.config.cacheTTL): the parameter default applies to undefined
CacheDefaultTTL(cfg) ==
    IF cfg.cacheTTL = UndefNum THEN DefaultCacheTTL ELSE cfg.cacheTTL

----------------------------------------------------------------------------
(* Inputs *)

TickMs == {500}
ClockLimit == MaxTicks * 500

Token(a, r, e, ty) ==
    [accessToken |-> a, refreshToken |-> r, expiresAt |-> e, tokenType |-> ty]

\* expiresAt is in seconds; with now in 0..1000 ms the values 300 and 301 sit on
\* both sides of now / 1000 + 300
TokenInputs ==
    {Token(a, r, e, ty) : a \in {"", "abc"}, r \in {Undefined, "r1"},
                          e \in {UndefNum, 0, 300, 301},
                          ty \in {Undefined, "Bearer", "MAC"}}

\* (url, method, params) triples, and (payload, ETag) pairs: an empty body without
\* an ETag and a non-empty one with an ETag
KeyInputs == {<<<<"/users">>, "GET", NoParams>>,
              <<<<"/users">>, "GET", <<"page=1">>>>,
              <<<<"/users">>, "POST", NoParams>>}
PayloadInputs == {<<"", Undefined>>, <<"a", "e1">>}
TtlInputs == {UndefNum, 0, 500}

NoObs == [op |-> "none"]

----------------------------------------------------------------------------
(* Time *)

Tick ==
    /\ \E d \in TickMs : now + d <= ClockLimit /\ now' = now + d
    /\ UNCHANGED <<config, tokenData, env, cache, reqs, started, obs, stored, triples>>

----------------------------------------------------------------------------
(* TokenManager's public operations *)

TMConstruct ==
    /\ tokenData' = LoadTokenFromStorage(config, env)
    /\ obs' = [op |-> "construct"]
    /\ UNCHANGED <<config, now, env, cache, reqs, started, stored, triples>>

SetToken(token) ==
    /\ tokenData' = <<token>>
    /\ env' = EnvAfterSetToken(config, env, token)
    /\ obs' = [op |-> "setToken", token |-> token]
    /\ UNCHANGED <<config, now, cache, reqs, started, stored, triples>>

ClearToken ==
    /\ tokenData' = <<>>
    /\ env' = EnvAfterClearToken(config, env)
    /\ obs' = [op |-> "clearToken"]
    /\ UNCHANGED <<config, now, cache, reqs, started, stored, triples>>

GetToken ==
    /\ obs' = [op |-> "getToken", value |-> tokenData]
    /\ UNCHANGED <<config, now, tokenData, env, cache, reqs, started, stored, triples>>

TMIsTokenValid ==
    /\ obs' = [op |-> "isTokenValid", value |-> IsTokenValid(tokenData, now),
               token |-> tokenData, at |-> now]
    /\ UNCHANGED <<config, now, tokenData, env, cache, reqs, started, stored, triples>>

TMGetAuthorizationHeader ==
    /\ obs' = [op |-> "getAuthorizationHeader",
               value |-> GetAuthorizationHeader(tokenData, now),
               token |-> tokenData, at |-> now]
    /\ UNCHANGED <<config, now, tokenData, env, cache, reqs, started, stored, triples>>

----------------------------------------------------------------------------
(* MemoryCache's public operations.  obs keeps, next to the value returned,
   the entry the key mapped to when the call was made. *)

EntryAt(c, key) == IF key \in DOMAIN c THEN <<c[key]>> ELSE <<>>

CSet(url, method, data, params, ttl, etag) ==
    /\ cache' = CacheSet(cache, CacheDefaultTTL(config), url, method, data,
                         params, ttl, etag, now)
    /\ obs' = [op |-> "set", key |-> GenerateKey(url, method, params),
               triple |-> <<url, method, params>>, ttl |-> ttl]
    /\ stored' = MapSet(stored, GenerateKey(url, method, params),
                        [data |-> data, at |-> now,
                         ttl |-> cache'[GenerateKey(url, method, params)].ttl])
    /\ UNCHANGED <<config, now, tokenData, env, reqs, started, triples>>

CGet(url, method, params) ==
    /\ cache' = CacheAfterGet(cache, url, method, params, now)
    /\ obs' = [op |-> "get", key |-> GenerateKey(url, method, params),
               value |-> CacheGet(cache, url, method, params, now),
               entry |-> EntryAt(cache, GenerateKey(url, method, params)),
               last |-> EntryAt(stored, GenerateKey(url, method, params)),
               triple |-> <<url, method, params>>,
               at |-> now]
    /\ UNCHANGED <<config, now, tokenData, env, reqs, started, stored, triples>>

CGetEtag(url, method, params) ==
    /\ obs' = [op |-> "getEtag", key |-> GenerateKey(url, method, params),
               value |-> CacheGetEtag(cache, url, method, params, now),
               entry |-> EntryAt(cache, GenerateKey(url, method, params)),
               at |-> now]
    /\ UNCHANGED <<config, now, tokenData, env, cache, reqs, started, stored, triples>>

CInvalidate(url, method, params) ==
    /\ cache' = CacheInvalidate(cache, url, method, params)
    /\ obs' = [op |-> "invalidate", key |-> GenerateKey(url, method, params)]
    /\ stored' = MapDelete(stored, GenerateKey(url, method, params))
    /\ UNCHANGED <<config, now, tokenData, env, reqs, started, triples>>

CClear ==
    /\ cache' = EmptyMap
    /\ obs' = [op |-> "clear"]
    /\ stored' = EmptyMap
    /\ UNCHANGED <<config, now, tokenData, env, reqs, started, triples>>

CCleanup ==
    /\ cache' = CacheCleanup(cache, now)
    /\ obs' = [op |-> "cleanup", removed |-> DOMAIN cache \ DOMAIN cache']
    /\ UNCHANGED <<config, now, tokenData, env, reqs, started, stored, triples>>

----------------------------------------------------------------------------
(* The token manager on its own *)

TokenConfigs == {MergeConfig([tokenStorage |-> s]) : s \in {"memory", "env"}}

InitToken ==
    /\ config \in TokenConfigs
    /\ now = 0
    /\ env = NoEnv
    /\ tokenData = LoadTokenFromStorage(config, env)
    /\ cache = EmptyMap
    /\ reqs = EmptyMap
    /\ started = 0
    /\ obs = NoObs
    /\ stored = EmptyMap
    /\ triples = {}

NextToken ==
    \/ Tick
    \/ TMConstruct
    \/ \E token \in TokenInputs : SetToken(token)
    \/ ClearToken
    \/ GetToken
    \/ TMIsTokenValid
    \/ TMGetAuthorizationHeader

SpecToken == InitToken /\ [][NextToken]_vars

(* The cache on its own *)

CacheConfigs == {MergeConfig([cacheTTL |-> t]) : t \in {1000}}

InitCache ==
    /\ config \in CacheConfigs
    /\ now = 0
    /\ env = NoEnv
    /\ tokenData = <<>>
    /\ cache = EmptyMap
    /\ reqs = EmptyMap
    /\ started = 0
    /\ obs = NoObs
    /\ stored = EmptyMap
    /\ triples = KeyInputs

NextCache ==
    \/ Tick
    \/ \E k \in triples, d \in PayloadInputs, t \in TtlInputs :
          CSet(k[1], k[2], d[1], k[3], t, d[2])
    \/ \E k \in triples : CGet(k[1], k[2], k[3])
    \/ \E k \in triples : CGetEtag(k[1], k[2], k[3])
    \/ \E k \in triples : CInvalidate(k[1], k[2], k[3])
    \/ CClear
    \/ CCleanup

SpecCache == InitCache /\ [][NextCache]_vars

(* The cache used with two triples that differ in url, method or params: the
   same operations, the pair drawn from TripleInputs.  The last triple's url
   spells out the text that the key of the second one has after its method. *)

TripleInputs ==
    {<<<<"/users">>, "GET", NoParams>>,
     <<<<"/users">>, "GET", <<"page=1">>>>,
     <<<<"/users">>, "GET", <<"page=1", "sort=name">>>>,
     <<<<"/users">>, "POST", <<"page=1">>>>,
     <<<<"/orders">>, "GET", <<"page=1">>>>,
     <<<<"/users", ":", "{", "page=1", "}">>, "GET", NoParams>>}

InitKeys ==
    /\ config \in CacheConfigs
    /\ now = 0
    /\ env = NoEnv
    /\ tokenData = <<>>
    /\ cache = EmptyMap
    /\ reqs = EmptyMap
    /\ started = 0
    /\ obs = NoObs
    /\ stored = EmptyMap
    /\ triples \in {p \in SUBSET TripleInputs : Cardinality(p) = 2}

SpecKeys == InitKeys /\ [][NextCache]_vars

(* The cache used with one parameter set written in its two insertion orders *)

OrderInputs ==
    {<<<<"/users">>, "GET", <<"a=1", "b=2">>>>,
     <<<<"/users">>, "GET", <<"b=2", "a=1">>>>}

InitOrder ==
    /\ config \in CacheConfigs
    /\ now = 0
    /\ env = NoEnv
    /\ tokenData = <<>>
    /\ cache = EmptyMap
    /\ reqs = EmptyMap
    /\ started = 0
    /\ obs = NoObs
    /\ stored = EmptyMap
    /\ triples = OrderInputs

SpecOrder == InitOrder /\ [][NextCache]_vars

(* TanqoryError on its own: errors are built by the constructor or by
   fromAxiosError, and asked whether they are retryable.  obs.error is the
   error object at hand. *)

StatusInputs == {400, 401, 403, 404, 429, 499, 500, 503}

AxiosErrorInputs ==
    {[response |-> <<[status |-> st, statusText |-> "",
                      data |-> [message |-> bm, code |-> bc],
                      headers |-> [retryAfter |-> <<>>]]>>,
      request |-> TRUE, message |-> m, code |-> c] :
        st \in StatusInputs, bm \in {Undefined, "", "body message"},
        bc \in {Undefined, "BODY_CODE"}, m \in {Undefined, "message"},
        c \in {Undefined, "ERR_BAD_REQUEST"}}
    \cup {[response |-> <<>>, request |-> rq, message |-> m, code |-> c] :
        rq \in BOOLEAN, m \in {Undefined, "", "message"},
        c \in {Undefined, "ECONNABORTED"}}

ENew(message, status, code) ==
    /\ obs' = [op |-> "new", error |-> NewTanqoryError(message, status, code, <<>>)]
    /\ UNCHANGED <<config, now, tokenData, env, cache, reqs, started, stored, triples>>

EFromAxiosError(e) ==
    /\ obs' = [op |-> "fromAxiosError", input |-> e, error |-> FromAxiosError(e)]
    /\ UNCHANGED <<config, now, tokenData, env, cache, reqs, started, stored, triples>>

EIsRetryable ==
    /\ obs.op \in {"new", "fromAxiosError"}
    /\ obs' = [op |-> "isRetryable", error |-> obs.error,
               value |-> IsRetryable(obs.error)]
    /\ UNCHANGED <<config, now, tokenData, env, cache, reqs, started, stored, triples>>

InitError ==
    /\ config = MergeConfig(EmptyMap)
    /\ now = 0
    /\ env = NoEnv
    /\ tokenData = <<>>
    /\ cache = EmptyMap
    /\ reqs = EmptyMap
    /\ started = 0
    /\ obs = NoObs
    /\ stored = EmptyMap
    /\ triples = {}

NextError ==
    \/ \E m \in {"message"}, st \in StatusInputs \cup {UndefNum, 0},
          c \in {Undefined, "CODE"} : ENew(m, st, c)
    \/ \E e \in AxiosErrorInputs : EFromAxiosError(e)
    \/ EIsRetryable

SpecError == InitError /\ [][NextError]_vars

----------------------------------------------------------------------------
(* The request pipeline: request(), executeWithRetry() and the interceptors.

   A logical request r is at one of these places:
     "idle"        not started
     "sending"     axiosInstance(config) was called; the request interceptor runs next
     "inflight"    the transport has the request
     "refreshing"  the response interceptor awaits the refresh endpoint
     "caught"      executeWithRetry's catch block has the error
     "sleeping"    executeWithRetry awaits sleep(delay)
     "done"        request() returned a response
     "failed"      request() raised
   Next to the locals of the code, a request counts its transport calls, refresh
   calls, replays, backoff waits and loop passes, and keeps in hit the payload of
   the unexpired cache entry request() found for it, if there was one.        *)

NoHeaders == [Authorization |-> NoHeader, XApiKey |-> Undefined,
              IfNoneMatch |-> Undefined]

Lower(method) == IF method = "GET" THEN "get" ELSE "post"
Upper(method) == IF method \in {"get", "GET"} THEN "GET" ELSE "POST"

Request(method, skipAuth, skipCache, retries) ==
    [url |-> <<"/users">>, method |-> method, params |-> NoParams,
     headers |-> NoHeaders, skipAuth |-> skipAuth, skipCache |-> skipCache,
     retries |-> retries]

RequestInputs ==
    {Request("GET", FALSE, FALSE, UndefNum),
     Request("GET", FALSE, FALSE, 0),
     Request("GET", FALSE, FALSE, 1),
     Request("GET", FALSE, TRUE, UndefNum),
     Request("GET", TRUE, FALSE, UndefNum),
     Request("POST", FALSE, FALSE, UndefNum)}

\* 2xx responses of the transport
OkInputs ==
    {[status |-> 200, statusText |-> "OK", data |-> "", etag |-> Undefined],
     [status |-> 200, statusText |-> "OK", data |-> "", etag |-> "e0"],
     [status |-> 200, statusText |-> "OK", data |-> "a", etag |-> "e1"],
     [status |-> 201, statusText |-> "Created", data |-> "a", etag |-> Undefined],
     [status |-> 204, statusText |-> "No Content", data |-> "", etag |-> Undefined]}

\* failures of the transport, as axios raises them
ErrResponse(status, text, retryAfter) ==
    [response |-> <<[status |-> status, statusText |-> text,
                     data |-> [message |-> Undefined, code |-> Undefined],
                     headers |-> [retryAfter |-> retryAfter]]>>,
     request |-> TRUE, message |-> "Request failed with status code",
     code |-> "ERR_BAD_RESPONSE"]

ErrInputs ==
    {ErrResponse(304, "Not Modified", <<>>),
     ErrResponse(400, "Bad Request", <<>>),
     ErrResponse(401, "Unauthorized", <<>>),
     ErrResponse(429, "Too Many Requests", <<>>),
     ErrResponse(429, "Too Many Requests", <<2>>),
     ErrResponse(500, "Internal Server Error", <<>>),
     [response |-> <<>>, request |-> TRUE, message |-> "timeout exceeded",
      code |-> "ECONNABORTED"],
     [response |-> <<>>, request |-> FALSE, message |-> "", code |-> Undefined]}

\* answers of the refresh endpoint: a token without expiry, one that expires
\* within the 300 s buffer, and a failure
RefreshInputs ==
    {[ok |-> TRUE, access_token |-> "new", refresh_token |-> Undefined,
      expires_at |-> UndefNum, token_type |-> Undefined],
     [ok |-> TRUE, access_token |-> "brief", refresh_token |-> "r2",
      expires_at |-> 300, token_type |-> Undefined],
     [ok |-> FALSE, access_token |-> Undefined, refresh_token |-> Undefined,
      expires_at |-> UndefNum, token_type |-> Undefined]}

IdleReq ==
    [pc |-> "idle", cfg |-> <<>>, retries |-> 0, attempt |-> 0, orig |-> <<>>,
     failure |-> <<>>, usedRefresh |-> Undefined, lastError |-> <<>>,
     delay |-> 0, result |-> <<>>, thrown |-> "none",
     calls |-> 0, refreshes |-> 0, replays |-> 0, waits |-> 0, passes |-> 0,
     hit |-> <<>>]

\* executeWithRetry's parameter default: retries = this.config.retries || 3
EffectiveRetries(override, cfg) ==
    IF override # UndefNum THEN override ELSE OrNum(cfg.retries, DefaultRetries)

\* the config axios merges for one call of axiosInstance(axiosConfig)
MergedRequest(rc) ==
    <<[url |-> rc.url, method |-> Lower(rc.method), params |-> rc.params,
       headers |-> rc.headers, skipAuth |-> rc.skipAuth, _retry |-> FALSE]>>

\* request interceptor
RequestHeaders(o, cfg, td, c, t) ==
    LET auth == GetAuthorizationHeader(td, t)
        h1 == IF o.skipAuth THEN o.headers
              ELSE IF auth # NoHeader THEN [o.headers EXCEPT !.Authorization = auth]
              ELSE IF TruthyStr(cfg.apiKey)
                   THEN [o.headers EXCEPT !.XApiKey = cfg.apiKey]
              ELSE o.headers
        etag == CacheGetEtag(c, o.url, o.method, o.params, t)
    IN IF cfg.enableCaching /\ o.method = "get" /\ TruthyStr(etag)
       THEN [h1 EXCEPT !.IfNoneMatch = etag]
       ELSE h1

\* request(): the cache check, then the first call of executeWithRetry's loop
Start(r, rc) ==
    /\ reqs[r].pc \in {"idle", "done", "failed"}
    /\ started < MaxRequests
    /\ started' = started + 1
    /\ LET useCache == config.enableCaching /\ ~rc.skipCache /\ rc.method = "GET"
           key == GenerateKey(rc.url, rc.method, rc.params)
           cachedData == IF useCache
                         THEN CacheGet(cache, rc.url, rc.method, rc.params, now)
                         ELSE NullData
           fresh == [IdleReq EXCEPT !.cfg = <<rc>>,
                        !.hit = IF /\ useCache
                                   /\ key \in DOMAIN cache
                                   /\ now - cache[key].timestamp <= cache[key].ttl
                                THEN <<cache[key].data>> ELSE <<>>]
       IN /\ cache' = IF useCache
                      THEN CacheAfterGet(cache, rc.url, rc.method, rc.params, now)
                      ELSE cache
          /\ reqs' = [reqs EXCEPT ![r] =
                IF TruthyStr(cachedData)
                THEN [fresh EXCEPT !.pc = "done",
                        !.result = <<[data |-> cachedData, status |-> 200,
                                      statusText |-> "OK (cached)"]>>]
                ELSE [fresh EXCEPT !.pc = "sending",
                        !.retries = EffectiveRetries(rc.retries, config),
                        !.passes = 1,
                        !.orig = MergedRequest(rc)]]
    /\ UNCHANGED <<config, now, tokenData, env, obs, stored, triples>>

\* the request interceptor, then the transport call
Send(r) ==
    /\ reqs[r].pc = "sending"
    /\ reqs' = [reqs EXCEPT ![r].pc = "inflight",
                            ![r].calls = @ + 1,
                            ![r].orig[1].headers =
                                RequestHeaders(reqs[r].orig[1], config, tokenData,
                                               cache, now)]
    /\ UNCHANGED <<config, now, tokenData, env, cache, started, obs, stored, triples>>

\* 200 responses written whatever the request's method
ShouldCacheAnyMethod(cfg, o, resp) == cfg.enableCaching /\ resp.status = 200

\* GET 200 responses written whether caching is enabled or not
ShouldCacheUnconfigured(cfg, o, resp) == o.method = "get" /\ resp.status = 200

\* every GET response written, whatever its status
ShouldCacheAnyStatus(cfg, o, resp) == cfg.enableCaching /\ o.method = "get"

\* response interceptor: whether the response to request o is written to the cache
ShouldCache(cfg, o, resp) ==
    cfg.enableCaching /\ o.method = "get" /\ resp.status = 200

\* response interceptor, success handler
RespondOk(r, resp) ==
    /\ reqs[r].pc = "inflight"
    /\ cache' = IF ShouldCache(config, reqs[r].orig[1], resp)
                THEN CacheSet(cache, CacheDefaultTTL(config), reqs[r].orig[1].url,
                              "GET", resp.data, reqs[r].orig[1].params,
                              config.cacheTTL, resp.etag, now)
                ELSE cache
    /\ reqs' = [reqs EXCEPT ![r].pc = "done",
                            ![r].result = <<[data |-> resp.data,
                                             status |-> resp.status,
                                             statusText |-> resp.statusText]>>]
    /\ UNCHANGED <<config, now, tokenData, env, started, obs, stored, triples>>

\* response interceptor, error handler from the 304 check on: what it does with
\* failure e of request o
AfterRefreshBranch(r, e, o) ==
    LET is304 == e.response # <<>> /\ e.response[1].status = 304
        cachedData == IF is304
                      THEN CacheGet(cache, o.url, Upper(o.method), o.params, now)
                      ELSE NullData
    IN /\ cache' = IF is304
                   THEN CacheAfterGet(cache, o.url, Upper(o.method), o.params, now)
                   ELSE cache
       /\ reqs' = [reqs EXCEPT ![r] =
             IF TruthyStr(cachedData)
             THEN [reqs[r] EXCEPT !.pc = "done", !.orig = <<o>>, !.failure = <<e>>,
                      !.result = <<[data |-> cachedData, status |-> 200,
                                    statusText |-> "OK"]>>]
             ELSE [reqs[r] EXCEPT !.pc = "caught", !.orig = <<o>>, !.failure = <<e>>,
                      !.lastError = <<FromAxiosError(e)>>]]

\* the 401 branch taken on a 403
WantsRefreshOn403(e, o, cfg) ==
    /\ e.response # <<>>
    /\ e.response[1].status = 403
    /\ ~o._retry
    /\ cfg.enableTokenRefresh

\* whether the error handler takes the 401 branch
WantsRefresh(e, o, cfg) ==
    /\ e.response # <<>>
    /\ e.response[1].status = 401
    /\ ~o._retry
    /\ cfg.enableTokenRefresh

HasRefreshToken(td) == td # <<>> /\ TruthyStr(td[1].refreshToken)

\* every failure clears the credential
RespondErrClearing(r, e) ==
    /\ reqs[r].pc = "inflight"
    /\ AfterRefreshBranch(r, e, reqs[r].orig[1])
    /\ tokenData' = <<>>
    /\ env' = EnvAfterClearToken(config, env)
    /\ UNCHANGED <<config, now, started, obs, stored, triples>>

\* response interceptor, error handler
RespondErr(r, e) ==
    /\ reqs[r].pc = "inflight"
    /\ LET o == reqs[r].orig[1]
           marked == [o EXCEPT !._retry = TRUE]
       IN IF WantsRefresh(e, o, config)
          THEN IF HasRefreshToken(tokenData)
               THEN /\ reqs' = [reqs EXCEPT ![r].pc = "refreshing",
                                            ![r].orig = <<marked>>,
                                            ![r].failure = <<e>>,
                                            ![r].usedRefresh = tokenData[1].refreshToken,
                                            ![r].refreshes = @ + 1]
                    /\ UNCHANGED cache
               ELSE AfterRefreshBranch(r, e, marked)
          ELSE AfterRefreshBranch(r, e, o)
    /\ UNCHANGED <<config, now, tokenData, env, started, obs, stored, triples>>

\* refreshToken(): the credential a successful answer installs
NewTokenData(resp, refreshToken) ==
    Token(resp.access_token, OrStr(resp.refresh_token, refreshToken),
          resp.expires_at, OrStr(resp.token_type, "Bearer"))

\* the refresh endpoint answers: install and replay, or clear and fall through
RefreshRespond(r, resp) ==
    /\ reqs[r].pc = "refreshing"
    /\ LET o == reqs[r].orig[1]
           newToken == NewTokenData(resp, reqs[r].usedRefresh)
           auth == GetAuthorizationHeader(<<newToken>>, now)
       IN IF resp.ok
          THEN /\ tokenData' = <<newToken>>
               /\ env' = EnvAfterSetToken(config, env, newToken)
               /\ reqs' = [reqs EXCEPT ![r].pc = "sending",
                             ![r].replays = @ + 1,
                             ![r].orig[1].headers.Authorization =
                                 IF auth # NoHeader THEN auth ELSE @]
               /\ UNCHANGED cache
          ELSE /\ tokenData' = <<>>
               /\ env' = EnvAfterClearToken(config, env)
               /\ AfterRefreshBranch(r, reqs[r].failure[1], o)
    /\ UNCHANGED <<config, now, started, obs, stored, triples>>

\* executeWithRetry: error.response?.headers['retry-after'] read off the caught
\* TanqoryError, whose response object has data, status and statusText only
RetryAfterHeader(err) ==
    IF err.response = <<>> THEN [threw |-> FALSE, value |-> <<>>]
    ELSE IF "headers" \notin DOMAIN err.response[1]
         THEN [threw |-> TRUE, value |-> <<>>]
    ELSE [threw |-> FALSE, value |-> err.response[1].headers.retryAfter]

\* executeWithRetry: the delay expression
RetryDelay(err, attempt, cfg) ==
    IF IsRateLimited(err)
    THEN LET h == RetryAfterHeader(err)
         IN IF h.threw THEN [threw |-> TRUE, ms |-> 0]
            ELSE IF h.value # <<>>
                 THEN [threw |-> FALSE, ms |-> Times(ParseIntText(h.value), 1000)]
            ELSE [threw |-> FALSE, ms |-> RateLimitDelay]
    ELSE [threw |-> FALSE,
          ms |-> OrNum(cfg.retryDelay, DefaultRetryDelay) * Pow2(attempt)]

\* the test of the attempt index left out
GivesUpNonRetryable(err, attempt, retries) == ~IsRetryable(err)

\* executeWithRetry: whether the catch block rethrows
GivesUp(err, attempt, retries) == attempt = retries \/ ~IsRetryable(err)

\* executeWithRetry's catch block
Catch(r) ==
    /\ reqs[r].pc = "caught"
    /\ LET err == reqs[r].lastError[1]
           d == RetryDelay(err, reqs[r].attempt, config)
       IN reqs' = [reqs EXCEPT ![r] =
             IF GivesUp(err, reqs[r].attempt, reqs[r].retries)
             THEN [reqs[r] EXCEPT !.pc = "failed", !.thrown = "TanqoryError"]
             ELSE IF d.threw
             THEN [reqs[r] EXCEPT !.pc = "failed", !.thrown = "TypeError"]
             ELSE [reqs[r] EXCEPT !.pc = "sleeping", !.delay = d.ms,
                                  !.waits = @ + 1]]
    /\ UNCHANGED <<config, now, tokenData, env, cache, started, obs, stored, triples>>

\* sleep(delay) is over: the loop's next pass
Wake(r) ==
    /\ reqs[r].pc = "sleeping"
    /\ reqs[r].attempt < MaxAttempts
    /\ reqs' = [reqs EXCEPT ![r].pc = "sending",
                            ![r].attempt = @ + 1,
                            ![r].passes = @ + 1,
                            ![r].orig = MergedRequest(reqs[r].cfg[1])]
    /\ UNCHANGED <<config, now, tokenData, env, cache, started, obs, stored, triples>>

----------------------------------------------------------------------------
(* One client serving logical requests one after another *)

ClientConfig(user, caching, refresh) ==
    MergeConfig([k \in DOMAIN user \cup {"enableCaching", "enableTokenRefresh", "cacheTTL"} |->
        IF k = "enableCaching" THEN caching
        ELSE IF k = "enableTokenRefresh" THEN refresh
        ELSE IF k = "cacheTTL" THEN 500
        ELSE user[k]])

\* retries and retryDelay left out, zero, and positive; an API key; tokens mirrored
\* to the environment
ClientConfigs ==
    {ClientConfig(EmptyMap, c, f) : c \in BOOLEAN, f \in BOOLEAN}
    \cup {ClientConfig([retries |-> n], c, f) :
             n \in {0, 1}, c \in BOOLEAN, f \in BOOLEAN}
    \cup {ClientConfig([retryDelay |-> d], FALSE, FALSE) : d \in {0, 250}}
    \cup {ClientConfig([apiKey |-> "k"], FALSE, f) : f \in BOOLEAN}
    \cup {ClientConfig([tokenStorage |-> "env"], FALSE, TRUE)}

\* no credential, one with a refresh token that expires while the clock runs, and
\* one without refresh token or expiry
ClientTokens ==
    {<<>>, <<Token("abc", "r1", 301, "Bearer")>>,
     <<Token("abc", Undefined, UndefNum, Undefined)>>}

Init ==
    /\ config \in ClientConfigs
    /\ now = 0
    /\ tokenData \in ClientTokens
    /\ env = IF tokenData = <<>> THEN NoEnv
             ELSE EnvAfterSetToken(config, NoEnv, tokenData[1])
    /\ cache = EmptyMap
    /\ reqs = [r \in {1} |-> IdleReq]
    /\ started = 0
    /\ obs = NoObs
    /\ stored = EmptyMap
    /\ triples = {}

Next ==
    \/ Tick
    \/ \E r \in DOMAIN reqs, rc \in RequestInputs : Start(r, rc)
    \/ \E r \in DOMAIN reqs : Send(r)
    \/ \E r \in DOMAIN reqs, resp \in OkInputs : RespondOk(r, resp)
    \/ \E r \in DOMAIN reqs, e \in ErrInputs : RespondErr(r, e)
    \/ \E r \in DOMAIN reqs, resp \in RefreshInputs : RefreshRespond(r, resp)
    \/ \E r \in DOMAIN reqs : Catch(r)
    \/ \E r \in DOMAIN reqs : Wake(r)

Spec == Init /\ [][Next]_vars

(* One client serving two logical requests at a time: the same steps, interleaved.
   Both requests are GETs of the same url with one retry; the transport answers
   200 with one of two bodies, 401 or 500. *)

ConcRequests == {Request("GET", FALSE, FALSE, 1)}

ConcOk ==
    {[status |-> 200, statusText |-> "OK", data |-> "a", etag |-> "e1"],
     [status |-> 200, statusText |-> "OK", data |-> "b", etag |-> "e2"]}

ConcErr ==
    {ErrResponse(401, "Unauthorized", <<>>),
     ErrResponse(500, "Internal Server Error", <<>>)}

InitConc ==
    /\ config = ClientConfig(EmptyMap, TRUE, TRUE)
    /\ now = 0
    /\ tokenData = <<Token("abc", "r1", 301, "Bearer")>>
    /\ env = NoEnv
    /\ cache = EmptyMap
    /\ reqs = [r \in {1, 2} |-> IdleReq]
    /\ started = 0
    /\ obs = NoObs
    /\ stored = EmptyMap
    /\ triples = {}

NextConc ==
    \/ Tick
    \/ \E r \in DOMAIN reqs, rc \in ConcRequests : Start(r, rc)
    \/ \E r \in DOMAIN reqs : Send(r)
    \/ \E r \in DOMAIN reqs, resp \in ConcOk : RespondOk(r, resp)
    \/ \E r \in DOMAIN reqs, e \in ConcErr : RespondErr(r, e)
    \/ \E r \in DOMAIN reqs, resp \in RefreshInputs : RefreshRespond(r, resp)
    \/ \E r \in DOMAIN reqs : Catch(r)
    \/ \E r \in DOMAIN reqs : Wake(r)

SpecConc == InitConc /\ [][NextConc]_vars

(* Clients that differ only in how token refresh was asked for: through
   enableTokenRefresh, through the documented autoRefreshToken, or not at all. *)

AliasConfigs ==
    {ClientConfig(EmptyMap, FALSE, TRUE),
     ClientConfig([autoRefreshToken |-> TRUE], FALSE, FALSE),
     ClientConfig(EmptyMap, FALSE, FALSE)}

InitAlias ==
    /\ config \in AliasConfigs
    /\ now = 0
    /\ tokenData = <<Token("abc", "r1", 301, "Bearer")>>
    /\ env = NoEnv
    /\ cache = EmptyMap
    /\ reqs = [r \in {1} |-> IdleReq]
    /\ started = 0
    /\ obs = NoObs
    /\ stored = EmptyMap
    /\ triples = {}

SpecAlias == InitAlias /\ [][Next]_vars

(* A client with one retry whose transport answers 429 without a retry-after
   header, with a numeric one and with one that is not a number, or 500. *)

RateErr ==
    {ErrResponse(429, "Too Many Requests", <<>>),
     ErrResponse(429, "Too Many Requests", <<2>>),
     ErrResponse(429, "Too Many Requests", <<NonDigit>>),
     ErrResponse(500, "Internal Server Error", <<>>)}

InitRate ==
    /\ config \in {ClientConfig([retries |-> 1], FALSE, FALSE),
                   ClientConfig(EmptyMap, FALSE, FALSE)}
    /\ now = 0
    /\ tokenData = <<>>
    /\ env = NoEnv
    /\ cache = EmptyMap
    /\ reqs = [r \in {1} |-> IdleReq]
    /\ started = 0
    /\ obs = NoObs
    /\ stored = EmptyMap
    /\ triples = {}

NextRate ==
    \/ Tick
    \/ \E r \in DOMAIN reqs, rc \in RequestInputs : Start(r, rc)
    \/ \E r \in DOMAIN reqs : Send(r)
    \/ \E r \in DOMAIN reqs, resp \in OkInputs : RespondOk(r, resp)
    \/ \E r \in DOMAIN reqs, e \in RateErr : RespondErr(r, e)
    \/ \E r \in DOMAIN reqs : Catch(r)
    \/ \E r \in DOMAIN reqs : Wake(r)

SpecRate == InitRate /\ [][NextRate]_vars

(* The client with its whole public surface: requests, setToken, clearToken and
   clearCache, on a caching client with and without token refresh and on one
   that does not cache. *)

ApiConfigs ==
    {ClientConfig(EmptyMap, TRUE, TRUE),
     ClientConfig(EmptyMap, FALSE, TRUE),
     ClientConfig([tokenStorage |-> "env"], TRUE, TRUE),
     ClientConfig(EmptyMap, TRUE, FALSE)}

ApiRequests == {Request("GET", FALSE, FALSE, 1), Request("POST", FALSE, FALSE, 0)}

ApiErr ==
    {ErrResponse(304, "Not Modified", <<>>),
     ErrResponse(401, "Unauthorized", <<>>),
     ErrResponse(500, "Internal Server Error", <<>>)}

ApiTokens ==
    {Token("abc", "r1", 301, "Bearer"), Token("abc", Undefined, UndefNum, Undefined)}

InitApi ==
    /\ config \in ApiConfigs
    /\ now = 0
    /\ tokenData = <<>>
    /\ env = NoEnv
    /\ cache = EmptyMap
    /\ reqs = [r \in {1} |-> IdleReq]
    /\ started = 0
    /\ obs = NoObs
    /\ stored = EmptyMap
    /\ triples = {}

NextApi ==
    \/ Tick
    \/ \E token \in ApiTokens : SetToken(token)
    \/ ClearToken
    \/ CClear
    \/ \E r \in DOMAIN reqs, rc \in ApiRequests : Start(r, rc)
    \/ \E r \in DOMAIN reqs : Send(r)
    \/ \E r \in DOMAIN reqs, resp \in ConcOk : RespondOk(r, resp)
    \/ \E r \in DOMAIN reqs, e \in ApiErr : RespondErr(r, e)
    \/ \E r \in DOMAIN reqs, resp \in RefreshInputs : RefreshRespond(r, resp)
    \/ \E r \in DOMAIN reqs : Catch(r)
    \/ \E r \in DOMAIN reqs : Wake(r)

SpecApi == InitApi /\ [][NextApi]_vars

(* A client in memory mode, tokenStorage 'memory' by default or passed as
   undefined, in a process whose environment is empty or holds the three keys of
   some other credential; its token manager can be constructed anew. *)

MemoryConfigs ==
    {ClientConfig(EmptyMap, FALSE, TRUE),
     ClientConfig([tokenStorage |-> Undefined], FALSE, TRUE)}

OtherEnv == [TANQORY_ACCESS_TOKEN |-> "other",
             TANQORY_REFRESH_TOKEN |-> "r9",
             TANQORY_TOKEN_EXPIRES_AT |-> <<9, 0, 0>>]

InitMemory ==
    /\ config \in MemoryConfigs
    /\ now = 0
    /\ env \in {NoEnv, OtherEnv}
    /\ tokenData = LoadTokenFromStorage(config, env)
    /\ cache = EmptyMap
    /\ reqs = [r \in {1} |-> IdleReq]
    /\ started = 0
    /\ obs = NoObs
    /\ stored = EmptyMap
    /\ triples = {}

NextMemory ==
    \/ Tick
    \/ TMConstruct
    \/ \E token \in ApiTokens : SetToken(token)
    \/ ClearToken
    \/ GetToken
    \/ \E r \in DOMAIN reqs, rc \in ConcRequests : Start(r, rc)
    \/ \E r \in DOMAIN reqs : Send(r)
    \/ \E r \in DOMAIN reqs, resp \in ConcOk : RespondOk(r, resp)
    \/ \E r \in DOMAIN reqs, e \in ConcErr : RespondErr(r, e)
    \/ \E r \in DOMAIN reqs, resp \in RefreshInputs : RefreshRespond(r, resp)
    \/ \E r \in DOMAIN reqs : Catch(r)
    \/ \E r \in DOMAIN reqs : Wake(r)

SpecMemory == InitMemory /\ [][NextMemory]_vars

(* The same client with every pending step eventually taken: the request
   interceptor and the transport call run, the transport and the refresh endpoint
   answer, the catch block runs and sleep() returns. *)

LiveConfigs ==
    {ClientConfig([retries |-> 1], TRUE, TRUE), ClientConfig(EmptyMap, FALSE, TRUE)}

InitLive ==
    /\ config \in LiveConfigs
    /\ now = 0
    /\ tokenData \in ClientTokens
    /\ env = NoEnv
    /\ cache = EmptyMap
    /\ reqs = [r \in {1} |-> IdleReq]
    /\ started = 0
    /\ obs = NoObs
    /\ stored = EmptyMap
    /\ triples = {}

TransportAnswers(r) ==
    \/ \E resp \in OkInputs : RespondOk(r, resp)
    \/ \E e \in ErrInputs : RespondErr(r, e)

RefreshAnswers(r) == \E resp \in RefreshInputs : RefreshRespond(r, resp)

Fairness ==
    \A r \in {1} :
        /\ WF_vars(Send(r))
        /\ WF_vars(TransportAnswers(r))
        /\ WF_vars(RefreshAnswers(r))
        /\ WF_vars(Catch(r))
        /\ WF_vars(Wake(r))

SpecLive == InitLive /\ [][Next]_vars /\ Fairness

----------------------------------------------------------------------------
(* Properties *)

\* maxRetries as the specification defines it: the per-request override, else the
\* client's configured value, else 3
ClaimedMaxRetries(r) ==
    IF reqs[r].cfg[1].retries # UndefNum THEN reqs[r].cfg[1].retries
    ELSE IF config.retries # UndefNum THEN config.retries
    ELSE DefaultRetries

FailureStatus(e) == IF e.response = <<>> THEN UndefNum ELSE e.response[1].status

\* a transport failure the specification calls retryable: status >= 500 or 429
RetryableFailure(e) ==
    FailureStatus(e) # UndefNum /\ (FailureStatus(e) >= 500 \/ FailureStatus(e) = 429)

\* C1: a logical request makes at most maxRetries backoff waits and at most
\* maxRetries + 1 passes through the attempt loop, whatever the transport returns.
C1_RetriesBounded ==
    \A r \in DOMAIN reqs :
        reqs[r].pc # "idle" =>
            /\ reqs[r].waits <= ClaimedMaxRetries(r)
            /\ reqs[r].passes <= ClaimedMaxRetries(r) + 1

\* C2: over a whole logical request, retries included, at most one call to the
\* refresh endpoint and at most one replay are made.
C2_SingleRefresh ==
    \A r \in DOMAIN reqs : reqs[r].refreshes <= 1 /\ reqs[r].replays <= 1

\* C3: a logical request that raises, raises a TanqoryError and nothing else.
C3_OnlyTanqoryError ==
    \A r \in DOMAIN reqs : reqs[r].pc = "failed" => reqs[r].thrown = "TanqoryError"

\* C4: get and getEtag return a value only from an entry whose age does not exceed
\* its ttl; for a missing or expired entry get yields null and getEtag no token.
C4_NeverReturnsExpired ==
    obs.op \in {"get", "getEtag"} =>
        ((obs.entry = <<>> \/ obs.at - obs.entry[1].timestamp > obs.entry[1].ttl)
            => obs.value = (IF obs.op = "get" THEN NullData ELSE Undefined))

\* an entry that carries a payload and an ETag was read after its ttl had elapsed
C4_Witness ==
    /\ obs.op \in {"get", "getEtag"}
    /\ obs.entry # <<>>
    /\ obs.entry[1].etag = "e1"
    /\ obs.at - obs.entry[1].timestamp > obs.entry[1].ttl
    /\ obs.value \in {NullData, Undefined}

\* C5: isTokenValid() is true exactly when a credential with a non-empty access
\* token is held and expiresAt is absent or greater than now + 300 seconds; it is
\* false whenever expiresAt is present and <= now + 300, expiresAt = 0 included.
C5_ValidIffNotExpiring ==
    obs.op = "isTokenValid" =>
        (obs.value <=>
            /\ obs.token # <<>>
            /\ obs.token[1].accessToken \notin {"", Undefined}
            /\ \/ obs.token[1].expiresAt = UndefNum
               \/ obs.token[1].expiresAt * 1000 > obs.at + 300 * 1000)

\* C6: a GET with caching enabled and skipCache unset that finds an unexpired
\* entry returns {data: the cached payload, status 200, statusText 'OK (cached)'}
\* and makes no transport call, whatever the payload is.
C6_CacheHitServed ==
    \A r \in DOMAIN reqs :
        reqs[r].hit # <<>> =>
            /\ reqs[r].pc = "done"
            /\ reqs[r].calls = 0
            /\ reqs[r].result = <<[data |-> reqs[r].hit[1], status |-> 200,
                                   statusText |-> "OK (cached)"]>>

\* C7, as claimed: after a transport failure that is not retryable (no status, or
\* a status below 500 other than 429) no backoff wait and no further transport
\* attempt follow.
C7_NonRetryableTerminal ==
    \A r \in DOMAIN reqs :
        (reqs[r].failure # <<>> /\ ~RetryableFailure(reqs[r].failure[1]))
            => reqs[r].pc \notin {"sending", "inflight", "sleeping"}

\* C7, amended: after a transport failure that is not retryable no backoff wait
\* follows, and a further transport attempt follows only as the replay of a 401
\* after a token refresh.
C7_NonRetryableTerminalButReplay ==
    \A r \in DOMAIN reqs :
        (reqs[r].failure # <<>> /\ ~RetryableFailure(reqs[r].failure[1]))
            => /\ reqs[r].pc # "sleeping"
               /\ reqs[r].pc \in {"sending", "inflight"} =>
                    /\ FailureStatus(reqs[r].failure[1]) = 401
                    /\ config.enableTokenRefresh
                    /\ reqs[r].orig[1]._retry
                    /\ reqs[r].replays >= 1

\* a 400 on the first attempt ended the request although retries were left
C7_Witness ==
    \E r \in DOMAIN reqs :
        /\ reqs[r].pc = "failed"
        /\ reqs[r].failure # <<>>
        /\ FailureStatus(reqs[r].failure[1]) = 400
        /\ reqs[r].attempt = 0
        /\ reqs[r].retries >= 1
        /\ reqs[r].calls = 1
        /\ reqs[r].waits = 0

\* C8: with maxRetries 0, as per-request override or as the client's configured
\* value, the first failure is terminal: one pass through the loop, no wait.
C8_ZeroRetriesTerminal ==
    \A r \in DOMAIN reqs :
        (reqs[r].pc # "idle" /\ ClaimedMaxRetries(r) = 0)
            => reqs[r].waits = 0 /\ reqs[r].passes <= 1

\* C9: a retryable failure (status >= 500 or 429) reaches the caller only when the
\* attempt with index maxRetries (the value executeWithRetry runs with) failed;
\* before that it is retried.
C9_RetryableRaisedOnlyWhenExhausted ==
    \A r \in DOMAIN reqs :
        (reqs[r].pc = "failed" /\ reqs[r].failure # <<>>
            /\ RetryableFailure(reqs[r].failure[1]))
            => reqs[r].attempt = reqs[r].retries

\* C10: a 429 on an attempt that is not the last is followed by a wait of
\* retry-after * 1000 ms if the response carried a retry-after header, of
\* 60000 ms if it did not.
C10_RateLimitWait ==
    \A r \in DOMAIN reqs :
        (/\ reqs[r].pc \in {"sleeping", "failed"}
         /\ reqs[r].failure # <<>>
         /\ FailureStatus(reqs[r].failure[1]) = 429
         /\ reqs[r].attempt < reqs[r].retries)
            => /\ reqs[r].pc = "sleeping"
               /\ reqs[r].delay =
                    IF reqs[r].failure[1].response[1].headers.retryAfter # <<>>
                    THEN ParseInt(reqs[r].failure[1].response[1].headers.retryAfter) * 1000
                    ELSE 60000

\* baseDelay as the specification defines it: the configured retryDelay, 1000 when
\* none is configured
ClaimedBaseDelay ==
    IF config.retryDelay # UndefNum THEN config.retryDelay ELSE 1000

\* C11: the wait that follows a retryable failure other than a 429 on attempt i
\* is baseDelay * 2^i, for every attempt before the last and every configured
\* non-negative baseDelay.
C11_ExponentialBackoff ==
    \A r \in DOMAIN reqs :
        (/\ reqs[r].pc = "sleeping"
         /\ reqs[r].failure # <<>>
         /\ RetryableFailure(reqs[r].failure[1])
         /\ FailureStatus(reqs[r].failure[1]) # 429)
            => reqs[r].delay = ClaimedBaseDelay * Pow2(reqs[r].attempt)

\* C12: a request made with skipAuth carries neither an Authorization header from
\* the token manager nor X-API-Key on any transport attempt: the first, every
\* retry after a backoff, and the replay after a token refresh.  (The callers of
\* the model pass no headers of their own.)
C12_SkipAuthNoCredential ==
    \A r \in DOMAIN reqs :
        (reqs[r].pc = "inflight" /\ reqs[r].cfg[1].skipAuth)
            => /\ reqs[r].orig[1].headers.Authorization = NoHeader
               /\ reqs[r].orig[1].headers.XApiKey = Undefined

\* the steps of logical request r, once it was made with request config rc
StepOf(r) == reqs'[r] # reqs[r] /\ reqs'[r].cfg # <<>>

\* some entry of the cache is new or differs from what its key mapped to
CacheWritten ==
    \E k \in DOMAIN cache' : k \notin DOMAIN cache \/ cache'[k] # cache[k]

\* the response r ended with came out of the cache: request()'s cache hit, or the
\* 304 branch of the error handler
AnsweredFromCache(q) ==
    /\ q.pc = "done"
    /\ \/ q.calls = 0
       \/ q.failure # <<>> /\ FailureStatus(q.failure[1]) = 304

\* C13: a GET made with skipCache is never answered from the cache, gets no
\* If-None-Match header from the cache, and its 200 response neither creates nor
\* overwrites a cache entry.
C13_SkipCacheBypassesCache ==
    [][\A r \in DOMAIN reqs :
          (StepOf(r) /\ reqs'[r].cfg[1].skipCache /\ reqs'[r].cfg[1].method = "GET")
             => /\ ~AnsweredFromCache(reqs'[r])
                /\ reqs'[r].orig # <<>>
                     => reqs'[r].orig[1].headers.IfNoneMatch = Undefined
                /\ ~CacheWritten]_vars

\* C14: a cache entry is written only by the status-200 response to a GET while
\* caching is enabled; failures, other 2xx statuses, other methods and the 304
\* branch write nothing.
C14_WriteOnlyOn200Get ==
    [][CacheWritten =>
          \E r \in DOMAIN reqs :
              /\ reqs[r].pc = "inflight" /\ reqs'[r].pc = "done"
              /\ reqs'[r].failure = reqs[r].failure
              /\ reqs'[r].result[1].status = 200
              /\ reqs[r].cfg[1].method = "GET"
              /\ config.enableCaching]_vars

\* the 200 response to a GET has just been written under the request's key
C14_Witness ==
    \E r \in DOMAIN reqs :
        /\ reqs[r].pc = "done" /\ reqs[r].calls = 1
        /\ reqs[r].result[1].status = 200
        /\ LET key == GenerateKey(reqs[r].cfg[1].url, "GET", reqs[r].cfg[1].params)
           IN /\ key \in DOMAIN cache
              /\ cache[key].timestamp = now
              /\ cache[key].data = reqs[r].result[1].data

\* C15: on every transport attempt of a request made without skipAuth the auth
\* headers are what the token manager yields at that moment: Authorization when
\* it holds a valid credential, else X-API-Key when an API key is configured, else
\* neither; nothing left from an earlier attempt or credential is sent.
C15_AuthFromStoreAtAttempt ==
    [][\A r \in DOMAIN reqs :
          (reqs[r].pc = "sending" /\ reqs'[r].pc = "inflight"
              /\ ~reqs[r].cfg[1].skipAuth)
             => LET auth == GetAuthorizationHeader(tokenData, now)
                    sent == reqs'[r].orig[1].headers
                IN /\ sent.Authorization = auth
                   /\ sent.XApiKey =
                        IF auth = NoHeader /\ config.apiKey \notin {Undefined, ""}
                        THEN config.apiKey ELSE Undefined]_vars

\* the unexpired entry the cache holds for the triple of request config rc, if any
LiveEntry(rc) ==
    LET key == GenerateKey(rc.url, rc.method, rc.params)
    IN IF key \in DOMAIN cache /\ now - cache[key].timestamp <= cache[key].ttl
       THEN <<cache[key]>> ELSE <<>>

\* C16: with caching enabled a 304 from the transport becomes a success: the
\* caller gets the payload of the cache entry for the request's (url, method,
\* params) with status 200, and no error is raised.
C16_NotModifiedServedFromCache ==
    [][\A r \in DOMAIN reqs :
          (/\ reqs[r].pc = "inflight"
           /\ reqs'[r].failure # reqs[r].failure
           /\ FailureStatus(reqs'[r].failure[1]) = 304
           /\ config.enableCaching
           /\ LiveEntry(reqs[r].cfg[1]) # <<>>)
             => /\ reqs'[r].pc = "done"
                /\ reqs'[r].result[1].data = LiveEntry(reqs[r].cfg[1])[1].data
                /\ reqs'[r].result[1].status = 200]_vars

\* C17: on a GET transport attempt with caching enabled, if the cache holds an
\* unexpired entry with an ETag for the request's (url, GET, params), the request
\* is sent with If-None-Match equal to that ETag.  (Stated for requests made
\* without skipCache.)
C17_IfNoneMatchSent ==
    [][\A r \in DOMAIN reqs :
          (/\ reqs[r].pc = "sending" /\ reqs'[r].pc = "inflight"
           /\ config.enableCaching
           /\ reqs[r].cfg[1].method = "GET"
           /\ ~reqs[r].cfg[1].skipCache
           /\ LiveEntry(reqs[r].cfg[1]) # <<>>
           /\ LiveEntry(reqs[r].cfg[1])[1].etag \notin {Undefined, ""})
             => reqs'[r].orig[1].headers.IfNoneMatch
                    = LiveEntry(reqs[r].cfg[1])[1].etag]_vars

\* the last refresh call of request q failed: it was made and no replay followed
RefreshFailed(q) == q.refreshes > q.replays /\ q.pc # "refreshing"

\* C18: when the refresh call a 401 triggered fails, the token manager is cleared
\* (getToken() yields null, and in env mode the environment keys are removed), no
\* replay is sent, and the original failure reaches the caller as a TanqoryError
\* with status 401.
C18_RefreshFailureClears ==
    \A r \in DOMAIN reqs :
        RefreshFailed(reqs[r]) =>
            /\ tokenData = <<>>
            /\ config.tokenStorage = "env" => env = NoEnv
            /\ reqs[r].pc \in {"caught", "failed"}
            /\ reqs[r].lastError[1] = FromAxiosError(reqs[r].failure[1])
            /\ reqs[r].lastError[1].status = 401
            /\ reqs[r].pc = "failed" => reqs[r].thrown = "TanqoryError"

\* in env mode a stored credential was cleared by a failed refresh and the 401
\* was raised
C18_Witness ==
    \E r \in DOMAIN reqs :
        /\ RefreshFailed(reqs[r])
        /\ reqs[r].pc = "failed"
        /\ reqs[r].thrown = "TanqoryError"
        /\ reqs[r].usedRefresh = "r1"
        /\ config.tokenStorage = "env"
        /\ env = NoEnv
        /\ tokenData = <<>>

\* C19: get on a triple, after a set on it with no set, invalidate or clear on
\* that triple in between and with at most the stored ttl elapsed, returns exactly
\* the payload of that set; a later set replaces the payload of an earlier one.
C19_GetAfterSet ==
    (obs.op = "get" /\ obs.last # <<>>
        /\ obs.at - obs.last[1].at <= obs.last[1].ttl)
        => obs.value = obs.last[1].data

\* the empty payload was read back some time after it was stored
C19_Witness ==
    /\ obs.op = "get"
    /\ obs.last # <<>>
    /\ obs.at > obs.last[1].at
    /\ obs.at - obs.last[1].at <= obs.last[1].ttl
    /\ obs.last[1].data = ""
    /\ obs.value = ""

\* C20: entries stored under triples that differ in method, url or params never
\* collide: a set on one triple leaves what get and getEtag return for every
\* other triple as it was.
C20_NoKeyCollision ==
    [][(obs'.op = "set" /\ now' = now) =>
          \A k \in triples :
              k # obs'.triple =>
                  /\ CacheGet(cache', k[1], k[2], k[3], now)
                        = CacheGet(cache, k[1], k[2], k[3], now)
                  /\ CacheGetEtag(cache', k[1], k[2], k[3], now)
                        = CacheGetEtag(cache, k[1], k[2], k[3], now)]_vars

\* both triples of the pair hold unexpired entries with different payloads, the
\* one set last being the younger
C20_Witness ==
    /\ obs.op = "set"
    /\ \E k \in triples :
          /\ k # obs.triple
          /\ CacheGet(cache, k[1], k[2], k[3], now) = "a"
          /\ CacheGetEtag(cache, k[1], k[2], k[3], now) = "e1"
          /\ CacheGet(cache, obs.triple[1], obs.triple[2], obs.triple[3], now) = ""
          /\ cache[GenerateKey(k[1], k[2], k[3])].timestamp
                < cache[obs.key].timestamp

\* the same key/value content, whatever the insertion order
SameParams(p, q) ==
    IF p = NoParams \/ q = NoParams THEN p = q
    ELSE /\ Len(p) = Len(q)
         /\ {p[i] : i \in 1..Len(p)} = {q[i] : i \in 1..Len(q)}

\* C21: key construction is order-normalized: get(url, method, {a:1, b:2}) after
\* set(url, method, payload, {b:2, a:1}) within the ttl returns the stored
\* payload.  (Stated for a get on an ordering that was not itself set.)
C21_OrderNormalizedKey ==
    [][(obs'.op = "get" /\ now' = now) =>
          \A u \in triples :
              (/\ u # obs'.triple
               /\ u[1] = obs'.triple[1] /\ u[2] = obs'.triple[2]
               /\ SameParams(u[3], obs'.triple[3])
               /\ GenerateKey(u[1], u[2], u[3]) \in DOMAIN stored
               /\ obs'.key \notin DOMAIN stored
               /\ now - stored[GenerateKey(u[1], u[2], u[3])].at
                     <= stored[GenerateKey(u[1], u[2], u[3])].ttl)
                 => obs'.value = stored[GenerateKey(u[1], u[2], u[3])].data]_vars

\* C22: isRetryable() is true exactly when the error has a status and the status
\* is >= 500 or 429; false for every other status and when there is no status.
C22_RetryableIffServerOr429 ==
    obs.op = "isRetryable" =>
        (obs.value <=>
            /\ obs.error.status # UndefNum
            /\ obs.error.status >= 500 \/ obs.error.status = 429)

\* a 429 built from a transport failure was asked and is retryable
C22_Witness ==
    /\ obs.op = "isRetryable"
    /\ obs.error.status = 429
    /\ obs.error.response # <<>>
    /\ obs.value

\* a string is present: neither absent nor empty
Present(str) == str \notin {Undefined, ""}

\* C23: fromAxiosError yields one of three shapes, in this order.  With a
\* response: the response's status, the body's message, else the error's message,
\* else 'Request failed', and the body's code, else the error's code.  Without a
\* response but with a request sent: 'No response received from server',
\* 'NETWORK_ERROR', no status.  Otherwise: the error's message or 'Request setup
\* failed', 'REQUEST_SETUP_ERROR', no status.
C23_ThreeShapes ==
    obs.op = "fromAxiosError" =>
        LET e == obs.input
            err == obs.error
        IN IF e.response # <<>>
           THEN /\ err.status = e.response[1].status
                /\ err.message =
                     IF Present(e.response[1].data.message)
                     THEN e.response[1].data.message
                     ELSE IF Present(e.message) THEN e.message
                     ELSE "Request failed"
                /\ err.code =
                     IF Present(e.response[1].data.code)
                     THEN e.response[1].data.code ELSE e.code
           ELSE IF e.request
           THEN /\ err.status = UndefNum
                /\ err.message = "No response received from server"
                /\ err.code = "NETWORK_ERROR"
           ELSE /\ err.status = UndefNum
                /\ err.message =
                     IF Present(e.message) THEN e.message
                     ELSE "Request setup failed"
                /\ err.code = "REQUEST_SETUP_ERROR"

\* a failure with a response and a sent request, whose body has a code but no
\* message, was classified by its response
C23_Witness ==
    /\ obs.op = "fromAxiosError"
    /\ obs.input.response # <<>>
    /\ obs.input.request
    /\ obs.input.response[1].data.message = Undefined
    /\ obs.input.message = "message"
    /\ obs.error.message = "message"
    /\ obs.error.code = "BODY_CODE"
    /\ obs.error.status = 404

\* C24: getAuthorizationHeader() returns null exactly when isTokenValid() is
\* false, and otherwise '{tokenType} {accessToken}' of the credential held, with
\* 'Bearer' for a credential without tokenType.
C24_HeaderIffValid ==
    obs.op = "getAuthorizationHeader" =>
        IF ~IsTokenValid(obs.token, obs.at) THEN obs.value = NoHeader
        ELSE obs.value =
                <<IF obs.token[1].tokenType = Undefined THEN "Bearer"
                  ELSE obs.token[1].tokenType,
                  obs.token[1].accessToken>>

\* a valid credential with a token type of its own gave its header
C24_Witness ==
    /\ obs.op = "getAuthorizationHeader"
    /\ obs.token # <<>>
    /\ obs.token[1].expiresAt = 301
    /\ obs.value = <<"MAC", "abc">>

\* C25: in env mode, after setToken(c), whatever setToken and clearToken calls
\* came before, the three environment keys mirror c's three fields, so that a
\* TokenManager constructed next loads exactly c's accessToken, refreshToken and
\* expiresAt.  (Stated for credentials with a non-empty access token and an
\* expiresAt that is absent or not 0.)
C25_EnvMirrorsCredential ==
    (/\ obs.op = "setToken"
     /\ config.tokenStorage = "env"
     /\ obs.token.accessToken # ""
     /\ obs.token.expiresAt # 0)
        => LET loaded == LoadTokenFromStorage(config, env)
           IN /\ loaded # <<>>
              /\ loaded[1].accessToken = obs.token.accessToken
              /\ loaded[1].refreshToken = obs.token.refreshToken
              /\ loaded[1].expiresAt = obs.token.expiresAt

Pending(q) == q.pc \in {"sending", "inflight", "refreshing", "caught", "sleeping"}
Ended(q) == q.pc \in {"done", "failed"}

\* C26: if the transport and the refresh endpoint always answer and every backoff
\* wait elapses, every logical request eventually returns a response or raises;
\* once it has, it makes no further transport call, cache write or credential
\* change (until the caller makes the next request).
C26_RequestsEnd ==
    /\ \A r \in {1} : Pending(reqs[r]) ~> Ended(reqs[r])
    /\ [][\A r \in {1} :
             (Ended(reqs[r]) /\ started' = started)
                => /\ reqs'[r].calls = reqs[r].calls
                   /\ Ended(reqs'[r])
                   /\ cache' = cache
                   /\ tokenData' = tokenData
                   /\ env' = env]_vars

\* a request was raised after a refresh, a replay and a backoff wait
C26_Witness ==
    \E r \in DOMAIN reqs :
        /\ reqs[r].pc = "failed"
        /\ reqs[r].replays >= 1
        /\ reqs[r].waits >= 1
        /\ reqs[r].attempt = reqs[r].retries

\* C27: two concurrent GETs of the same (url, params) can both miss the cache
\* and both reach the transport; when both get a 200, each writes the same key,
\* and after each write the cache holds the payload and the ETag of the response
\* just processed: the one processed last wins, without error.
C27_LastWriteWins ==
    [][\A r \in DOMAIN reqs :
          (/\ reqs[r].pc = "inflight" /\ reqs'[r].pc = "done"
           /\ reqs'[r].failure = reqs[r].failure
           /\ reqs'[r].result[1].status = 200)
             => \E resp \in ConcOk :
                   LET key == GenerateKey(reqs[r].cfg[1].url, "GET",
                                          reqs[r].cfg[1].params)
                   IN /\ reqs'[r].result[1].data = resp.data
                      /\ key \in DOMAIN cache'
                      /\ cache'[key].data = resp.data
                      /\ cache'[key].etag = resp.etag
                      /\ \A k \in DOMAIN cache' : k = key]_vars

\* both requests missed the cache, went to the transport once and got different
\* 200 responses; the cache holds the second request's
C27_Witness ==
    /\ \A r \in {1, 2} :
          /\ reqs[r].pc = "done" /\ reqs[r].calls = 1 /\ reqs[r].hit = <<>>
          /\ reqs[r].result[1].status = 200
    /\ reqs[1].result[1].data = "a"
    /\ reqs[2].result[1].data = "b"
    /\ \E k \in DOMAIN cache : cache[k].data = "b" /\ cache[k].etag = "e2"

\* C28: refreshes are not deduplicated: each of two concurrent requests that
\* receives a 401 (refresh enabled, refresh token stored, attempt not yet
\* replayed) issues its own call to the refresh endpoint, whatever the other
\* request is doing, so two calls for the same refresh token can be in flight
\* at once.
C28_RefreshPerRequest ==
    [][\A r \in DOMAIN reqs :
          (/\ reqs[r].pc = "inflight" /\ reqs'[r].pc # "inflight"
           /\ reqs'[r].failure # <<>>
           /\ FailureStatus(reqs'[r].failure[1]) = 401
           /\ ~reqs[r].orig[1]._retry
           /\ config.enableTokenRefresh
           /\ tokenData # <<>>
           /\ tokenData[1].refreshToken \notin {Undefined, ""})
             => /\ reqs'[r].pc = "refreshing"
                /\ reqs'[r].refreshes = reqs[r].refreshes + 1
                /\ reqs'[r].usedRefresh = tokenData[1].refreshToken]_vars

\* two refresh calls for the same refresh token are in flight
C28_Witness ==
    /\ reqs[1].pc = "refreshing" /\ reqs[2].pc = "refreshing"
    /\ reqs[1].usedRefresh = "r1" /\ reqs[2].usedRefresh = "r1"

\* C29: autoRefreshToken is an alias for enableTokenRefresh: a client built with
\* either option set reacts to a 401 on an attempt not yet replayed, with a
\* refresh token stored, by calling the refresh endpoint with that token.
C29_AutoRefreshAlias ==
    [][\A r \in DOMAIN reqs :
          (/\ reqs[r].pc = "inflight" /\ reqs'[r].pc # "inflight"
           /\ reqs'[r].failure # <<>>
           /\ FailureStatus(reqs'[r].failure[1]) = 401
           /\ ~reqs[r].orig[1]._retry
           /\ (config.enableTokenRefresh \/ config.autoRefreshToken)
           /\ HasRefreshToken(tokenData))
             => /\ reqs'[r].pc = "refreshing"
                /\ reqs'[r].usedRefresh = tokenData[1].refreshToken]_vars

\* C30: expired entries are purged on access: after a get or a getEtag that
\* found an entry whose age exceeds its ttl, the cache map no longer contains
\* the key.
C30_ExpiredPurgedOnAccess ==
    (/\ obs.op \in {"get", "getEtag"}
     /\ obs.entry # <<>>
     /\ obs.at - obs.entry[1].timestamp > obs.entry[1].ttl)
        => obs.key \notin DOMAIN cache

\* the retry-after header of failure e is missing or is not a number
NoUsableRetryAfter(e) ==
    LET h == e.response[1].headers.retryAfter
    IN h = <<>> \/ LeadingDigits(h) = <<>>

\* C31: a 429 on an attempt that is retried whose retry-after header is missing
\* or not a number is followed by a wait of exactly 60000 ms.
C31_DefaultRateLimitWait ==
    \A r \in DOMAIN reqs :
        (/\ reqs[r].pc \in {"sleeping", "failed"}
         /\ reqs[r].failure # <<>>
         /\ FailureStatus(reqs[r].failure[1]) = 429
         /\ NoUsableRetryAfter(reqs[r].failure[1])
         /\ reqs[r].attempt < reqs[r].retries)
            => /\ reqs[r].pc = "sleeping"
               /\ reqs[r].delay = RateLimitDelay

\* the credential the specification says a successful refresh answer resp
\* installs, the refresh having been called with refresh token used
ClaimedCredential(resp, used) ==
    Token(resp.access_token,
          IF resp.refresh_token # Undefined THEN resp.refresh_token ELSE used,
          resp.expires_at,
          IF resp.token_type # Undefined THEN resp.token_type ELSE "Bearer")

\* C32: a successful refresh leaves in the store the credential made of the
\* returned access token, the returned refresh token or else the one used, and
\* the returned token type or else Bearer; the replay that follows is sent with
\* the Authorization header of that credential (or with what the token manager
\* yields for it at that moment).
C32_RefreshInstallsAndReplays ==
    [][\A r \in DOMAIN reqs :
          /\ (reqs[r].pc = "refreshing" /\ reqs'[r].pc = "sending")
                => \E resp \in RefreshInputs :
                      /\ resp.ok
                      /\ tokenData' = <<ClaimedCredential(resp, reqs[r].usedRefresh)>>
          /\ (reqs[r].pc = "sending" /\ reqs[r].orig[1]._retry
                  /\ reqs'[r].pc = "inflight")
                => /\ tokenData # <<>>
                   /\ reqs'[r].orig[1].headers.Authorization \in
                         {<<tokenData[1].tokenType, tokenData[1].accessToken>>,
                          GetAuthorizationHeader(tokenData, now)}]_vars

\* C33: set stores the entry with the ttl the caller supplied, 0 included, and
\* with the cache-wide default ttl only when the ttl argument was omitted.
C33_SetUsesSuppliedTtl ==
    obs.op = "set"
        => /\ obs.key \in DOMAIN cache
           /\ cache[obs.key].ttl =
                IF obs.ttl # UndefNum THEN obs.ttl ELSE CacheDefaultTTL(config)

\* C34: cleanup() removes every entry whose age exceeds its ttl at the time of
\* the call and leaves every other entry as it was (payload, storedAt, ttl and
\* ETag); it adds nothing.
C34_CleanupSweepsExpiredOnly ==
    [][(obs'.op = "cleanup" /\ now' = now)
          => /\ DOMAIN cache' \subseteq DOMAIN cache
             /\ \A k \in DOMAIN cache :
                   IF now - cache[k].timestamp > cache[k].ttl
                   THEN k \notin DOMAIN cache'
                   ELSE k \in DOMAIN cache' /\ cache'[k] = cache[k]]_vars

\* a cleanup removed an expired entry and left an unexpired one
C34_Witness ==
    /\ obs.op = "cleanup"
    /\ obs.removed # {}
    /\ \E k \in DOMAIN cache : now - cache[k].timestamp <= cache[k].ttl

\* C35: when two concurrent requests both received a 401 and both called the
\* refresh endpoint, and both have finished, the store holds a credential if at
\* least one of the refreshes succeeded: the other request's failed refresh has
\* not cleared what the successful one installed.
C35_FailedRefreshKeepsInstalled ==
    (/\ \A r \in DOMAIN reqs :
           reqs[r].pc \in {"done", "failed"} /\ reqs[r].refreshes = 1
     /\ \E r \in DOMAIN reqs : reqs[r].replays = 1)
        => tokenData # <<>>

\* C36: no transport attempt carries both an Authorization header and an
\* X-API-Key header (the callers of the model pass no headers of their own); the
\* replay after a refresh that installed a credential that is not valid, on a
\* client with an API key, included.
C36_NeverBothCredentials ==
    \A r \in DOMAIN reqs :
        reqs[r].pc = "inflight"
            => ~(/\ reqs[r].orig[1].headers.Authorization # NoHeader
                 /\ reqs[r].orig[1].headers.XApiKey # Undefined)

\* C37: the stored credential (and its mirror in the environment) changes only
\* through setToken, clearToken, a successful refresh, which installs one, or a
\* failed refresh call, which clears it; every other step of a request leaves
\* it unchanged.
C37_CredentialFrame ==
    [][(tokenData' # tokenData \/ env' # env)
          => \/ reqs' = reqs /\ obs'.op = "setToken" /\ tokenData' = <<obs'.token>>
             \/ reqs' = reqs /\ obs'.op = "clearToken" /\ tokenData' = <<>>
             \/ \E r \in DOMAIN reqs :
                   /\ reqs[r].pc = "refreshing"
                   /\ \/ reqs'[r].pc = "sending" /\ tokenData' # <<>>
                            /\ reqs'[r].replays = reqs[r].replays + 1
                      \/ reqs'[r].pc \in {"caught", "done"} /\ tokenData' = <<>>
                            /\ reqs'[r].replays = reqs[r].replays]_vars

\* the replay after a successful refresh failed with a 401 again and the
\* installed credential is still stored
C37_Witness ==
    \E r \in DOMAIN reqs :
        /\ reqs[r].pc = "failed"
        /\ reqs[r].refreshes = 1 /\ reqs[r].replays = 1 /\ reqs[r].calls = 2
        /\ FailureStatus(reqs[r].failure[1]) = 401
        /\ tokenData # <<>>
        /\ tokenData[1].accessToken = "new"

\* C38: while enableCaching is false the cache is empty in every reachable
\* state; no request is answered from the cache, and a 304 failure is raised to
\* the caller as an error.
C38_NoCachingNoEntries ==
    ~config.enableCaching
        => /\ cache = EmptyMap
           /\ \A r \in DOMAIN reqs :
                 /\ ~AnsweredFromCache(reqs[r])
                 /\ reqs[r].hit = <<>>
                 /\ (reqs[r].failure # <<>> /\ FailureStatus(reqs[r].failure[1]) = 304)
                       => /\ reqs[r].pc \in {"caught", "failed"}
                          /\ reqs[r].lastError[1].status = 304
                          /\ reqs[r].pc = "failed" => reqs[r].thrown = "TanqoryError"

\* without caching the second GET was sent to the transport, answered 304 and
\* failed
C38_Witness ==
    /\ ~config.enableCaching
    /\ started = 2
    /\ reqs[1].cfg[1].method = "GET"
    /\ reqs[1].pc = "failed"
    /\ reqs[1].calls = 1
    /\ FailureStatus(reqs[1].failure[1]) = 304

\* C39: the contents of the cache change only through the write-through of a
\* 200 response to a GET, which sets the entry of that request's key and no
\* other, through a read's eviction of an expired entry, or through clearCache();
\* POST requests, setToken, clearToken and token refresh change nothing.
C39_CacheFrame ==
    [][cache' # cache
          => \/ \E r \in DOMAIN reqs :
                   LET key == GenerateKey(reqs[r].cfg[1].url, "GET",
                                          reqs[r].cfg[1].params)
                   IN /\ reqs[r].pc = "inflight" /\ reqs'[r].pc = "done"
                      /\ reqs[r].cfg[1].method = "GET"
                      /\ reqs'[r].result[1].status = 200
                      /\ DOMAIN cache' = DOMAIN cache \cup {key}
                      /\ \A k \in DOMAIN cache : k # key => cache'[k] = cache[k]
             \/ /\ reqs' # reqs
                /\ \E k \in DOMAIN cache :
                      /\ now - cache[k].timestamp > cache[k].ttl
                      /\ cache' = MapDelete(cache, k)
             \/ reqs' = reqs /\ obs'.op = "clear" /\ cache' = EmptyMap]_vars

\* a POST to the cached url succeeded and the credential was cleared; the cached
\* GET response is still there
C39_Witness ==
    /\ reqs[1].pc = "done"
    /\ reqs[1].cfg[1].method = "POST"
    /\ reqs[1].result[1].status = 200
    /\ obs.op = "clearToken"
    /\ tokenData = <<>>
    /\ GenerateKey(<<"/users">>, "GET", NoParams) \in DOMAIN cache

\* C40: in memory mode no token manager operation writes the three TANQORY_*
\* keys of the environment or reads them: construction yields no credential
\* whatever the environment holds, setToken, clearToken and a refresh that
\* installs or clears the credential leave the environment as it is, and the
\* credential held is never the one found in the environment.
C40_MemoryModeLeavesEnv ==
    [][/\ env' = env
       /\ (obs'.op = "construct" /\ reqs' = reqs /\ now' = now) => tokenData' = <<>>
       /\ obs'.op = "getToken"
             => \/ obs'.value = <<>>
                \/ obs'.value[1].accessToken # env'.TANQORY_ACCESS_TOKEN
       /\ tokenData' # <<>>
             => tokenData'[1].accessToken # env'.TANQORY_ACCESS_TOKEN]_vars

\* with another credential in the environment, a refresh installed a new
\* credential in memory and the environment still holds the other one
C40_Witness ==
    /\ env = OtherEnv
    /\ reqs[1].replays = 1
    /\ tokenData # <<>>
    /\ tokenData[1].accessToken = "new"

====
